---- MODULE Spec2Model ----
(***************************************************************************)
(* Snake game (SnakeGame/src): the Snake entity (snake.py), the            *)
(* FruitGenerator (fruit.py) and the per-frame loop of main() (game.py).   *)
(*                                                                         *)
(* Units: lengths are pixels; an elapsed time is given as the integer of   *)
(* milliseconds clock.tick returns (game.py:78) and reaches the update     *)
(* functions as the float ms / 1000.0.  move_accumulator, the fruit timer  *)
(* and countdown_timer are the floats the code computes from it (binary64, *)
(* round to nearest, ties to even); interval and the countdown start are   *)
(* seconds.                                                                *)
(***************************************************************************)
EXTENDS Integers, Sequences, FiniteSets, TLC

VARIABLES
    snake,             \* Snake: segments, direction, move_accumulator, grow_pending
    fruit_generator,   \* FruitGenerator: fruits (list of <<x, y>>), timer (float)
    start_page,        \* StartPage: visible, button_pressed
    end_page,          \* EndPage: visible
    countdown_active,  \* main(): local countdown_active
    countdown_timer,   \* main(): local countdown_timer (float, signed)
    countdown_number,  \* main(): local countdown_number
    game_over,         \* main(): local game_over
    passed_segments,   \* argument of the last FruitGenerator.update call (FruitSpec)
    twin,              \* a second Snake built with the same arguments (CatchUpSpec)
    built,             \* a Snake and a FruitGenerator built with any arguments,
                       \* and whether a call of update on that Snake is
                       \* running (ConfigSpec)
    last,              \* record of the last operation performed (history)
    count              \* history counters: grow() calls and update cell-steps since
                       \* the snake was built or reset, and whether every grow()
                       \* call came before every cell-step; ms elapsed since the
                       \* fruit timer was last set to interval, and the
                       \* updates with a negative elapsed time since then

vars == <<snake, fruit_generator, start_page, end_page, countdown_active,
          countdown_timer, countdown_number, game_over, passed_segments, twin,
          built, last, count>>

(***************************************************************************)
(* Bounds of the model                                                     *)
(***************************************************************************)
\* half the number of grid columns of the play field (width 800 = 2 * 20 cells)
HalfCols == 1
\* number of grid rows of the play field
Rows == 4
\* explored snakes have at most MaxLen segments, pending growth included
\* (CatchUpSpec and the frame loop)
MaxLen == 4
\* GrowthSpec follows a Snake object up to MaxGrown segments, pending growth
\* included: two grow() calls and the cell-steps that use them up
MaxGrown == 5
\* at most MaxFruits live fruits are explored in FruitSpec
MaxFruits == 1
\* at most MaxLive live fruits are explored in the frame loop
MaxLive == 2
\* elapsed times passed to an update are at most MaxDelta ms
MaxDelta == 7000
\* at most MaxRewinds updates with a negative elapsed time are followed
\* between two settings of the fruit timer to interval (FruitSpec)
MaxRewinds == 1
\* a snake built with any cell size is followed while the distance of its head
\* from the top edge plus its accumulator is at most MaxReach pixels (ConfigSpec)
MaxReach == 100

(***************************************************************************)
(* Program constants                                                       *)
(***************************************************************************)
segment_size == 20
grid_size == 20
speed == 20
length == 3
interval == 5
max_attempts == 100
MsPerSecond == 1000
CountdownStart == 3

screen_width == 2 * HalfCols * segment_size
screen_height == Rows * segment_size

UP == <<0, -1>>
DOWN == <<0, 1>>
LEFT == <<-1, 0>>
RIGHT == <<1, 0>>
KEY_TO_DIRECTION == {UP, DOWN, LEFT, RIGHT}

Min(a, b) == IF a <= b THEN a ELSE b
Abs(n) == IF n < 0 THEN -n ELSE n

(***************************************************************************)
(* Floats (binary64).  A float v with 0 <= v < 256 that is a multiple of   *)
(* 2^-64 is the integer v * 2^64, written as four digits of base 2^20,     *)
(* lowest digit first (the highest digit is not reduced).  Every float the *)
(* accumulator arithmetic meets for elapsed times of 1 ms to 12 s is such  *)
(* a value.                                                                *)
(***************************************************************************)
Limb == 2^20

\* the float of the integer n
DoubleOf(n) == <<0, 0, 0, n * 16>>

\* exact sum, difference (a >= b) and multiple (0 <= k < 2048) of digit strings
BigAdd(a, b) ==
    LET s1 == a[1] + b[1]
        s2 == a[2] + b[2] + s1 \div Limb
        s3 == a[3] + b[3] + s2 \div Limb
        s4 == a[4] + b[4] + s3 \div Limb
    IN  <<s1 % Limb, s2 % Limb, s3 % Limb, s4>>

BigSub(a, b) ==
    LET s1 == a[1] - b[1]
        s2 == a[2] - b[2] + s1 \div Limb
        s3 == a[3] - b[3] + s2 \div Limb
        s4 == a[4] - b[4] + s3 \div Limb
    IN  <<s1 % Limb, s2 % Limb, s3 % Limb, s4>>

BigScale(a, k) ==
    LET s1 == a[1] * k
        s2 == a[2] * k + s1 \div Limb
        s3 == a[3] * k + s2 \div Limb
        s4 == a[4] * k + s3 \div Limb
    IN  <<s1 % Limb, s2 % Limb, s3 % Limb, s4>>

\* a < b
DoubleLess(a, b) ==
    IF a[4] # b[4] THEN a[4] < b[4]
    ELSE IF a[3] # b[3] THEN a[3] < b[3]
    ELSE IF a[2] # b[2] THEN a[2] < b[2]
    ELSE a[1] < b[1]

\* number of binary digits of n, 0 <= n < 2^31
RECURSIVE Bits(_)
Bits(n) == IF n = 0 THEN 0 ELSE 1 + Bits(n \div 2)

BitLength(a) ==
    IF a[4] > 0 THEN 60 + Bits(a[4])
    ELSE IF a[3] > 0 THEN 40 + Bits(a[3])
    ELSE IF a[2] > 0 THEN 20 + Bits(a[2])
    ELSE Bits(a[1])

\* the float nearest to a (to a + e with 0 < e < 2^-64 when sticky): 53
\* significant binary digits, ties to the even one.  Below 256 the digits
\* rounded away are all in the lowest digit of a.
RoundUp(a, r, unit) == BigAdd(<<a[1] - r, a[2], a[3], a[4]>>, <<unit, 0, 0, 0>>)
RoundDown(a, r) == <<a[1] - r, a[2], a[3], a[4]>>

\* a rounded to a multiple of unit, r being a % unit
RoundTo(a, sticky, unit, r) ==
    IF 2 * r > unit \/ (2 * r = unit /\ (sticky \/ (a[1] \div unit) % 2 = 1))
    THEN RoundUp(a, r, unit)
    ELSE RoundDown(a, r)

RoundFrom(a, sticky, unit) == RoundTo(a, sticky, unit, a[1] % unit)

RoundBelow(a, sticky, p) == IF p <= 0 THEN a ELSE RoundFrom(a, sticky, 2^p)

Round53(a, sticky) ==
    IF a[1] = 0 /\ ~sticky THEN a ELSE RoundBelow(a, sticky, BitLength(a) - 53)

\* the float ms / 1000.0 (game.py:78), ms >= 1: long division, then rounding
Seconds(ms) ==
    LET n4 == ms * 16
        n3 == (n4 % MsPerSecond) * Limb
        n2 == (n3 % MsPerSecond) * Limb
        n1 == (n2 % MsPerSecond) * Limb
    IN  Round53(<<n1 \div MsPerSecond, n2 \div MsPerSecond,
                  n3 \div MsPerSecond, n4 \div MsPerSecond>>,
                n1 % MsPerSecond # 0)

\* float product k * a for an integer-valued float k, float sum and difference
DoubleMul(k, a) == Round53(BigScale(a, k), FALSE)
DoubleAdd(a, b) == Round53(BigAdd(a, b), FALSE)
DoubleSub(a, b) == Round53(BigSub(a, b), FALSE)

\* the floats ms / 1000.0
SecondsOf == [ms \in 0..MaxDelta |-> Seconds(ms)]

\* a float of either sign: its sign and its absolute value
Signed(negative, magnitude) == [negative |-> negative, magnitude |-> magnitude]

\* the float a - b for floats a, b >= 0
DoubleMinus(a, b) ==
    IF DoubleLess(a, b) THEN Signed(TRUE, DoubleSub(b, a))
    ELSE Signed(FALSE, DoubleSub(a, b))

\* timer - delta_time for a float timer >= 0 and delta_time = ms / 1000.0
Decrement(timer, ms) ==
    IF ms < 0 THEN Signed(FALSE, DoubleAdd(timer, SecondsOf[-ms]))
    ELSE DoubleMinus(timer, SecondsOf[ms])

\* v <= 0
NotPositive(v) == v.negative \/ v.magnitude = DoubleOf(0)

\* the float speed * delta_time (snake.py:107) for delta_time = ms / 1000.0
Travel == [ms \in 1..MaxDelta |-> DoubleMul(speed, Seconds(ms))]

(***************************************************************************)
(* Snake (snake.py)                                                        *)
(***************************************************************************)
\* Snake.__init__ / Snake.reset: the initial segment list, head first
InitialSegments ==
    [i \in 1..length |->
        <<screen_width \div 2, length * segment_size - (i - 1) * segment_size>>]

SnakeNew ==
    [segments |-> InitialSegments, direction |-> DOWN,
     move_accumulator |-> DoubleOf(0), grow_pending |-> 0]

get_head(s) == s.segments[1]
get_tail(s) == s.segments[Len(s.segments)]

DropLast(q) == SubSeq(q, 1, Len(q) - 1)

\* mutant: the step forgets the segment size
NewHeadUnit(s) ==
    <<get_head(s)[1] + s.direction[1], get_head(s)[2] + s.direction[2]>>

NewHead(s) ==
    <<get_head(s)[1] + s.direction[1] * segment_size,
      get_head(s)[2] + s.direction[2] * segment_size>>

\* mutant: the tail is never removed
UpdateStepKeepTail(s) ==
    [s EXCEPT !.segments = <<NewHead(s)>> \o s.segments,
              !.move_accumulator = DoubleSub(@, DoubleOf(segment_size))]

\* mutant: pending growth is a flag, one growth step uses up all of it
UpdateStepClearsGrowth(s) ==
    IF s.grow_pending > 0
    THEN [s EXCEPT !.segments = <<NewHead(s)>> \o s.segments,
                   !.grow_pending = 0,
                   !.move_accumulator = DoubleSub(@, DoubleOf(segment_size))]
    ELSE [s EXCEPT !.segments = DropLast(<<NewHead(s)>> \o s.segments),
                   !.move_accumulator = DoubleSub(@, DoubleOf(segment_size))]

\* one iteration of the while loop of Snake.update
UpdateStep(s) ==
    LET inserted == <<NewHead(s)>> \o s.segments
    IN  IF s.grow_pending > 0
        THEN [s EXCEPT !.segments = inserted,
                       !.grow_pending = @ - 1,
                       !.move_accumulator = DoubleSub(@, DoubleOf(segment_size))]
        ELSE [s EXCEPT !.segments = DropLast(inserted),
                       !.move_accumulator = DoubleSub(@, DoubleOf(segment_size))]

\* mutant: the loop runs only while the accumulator exceeds one cell
RECURSIVE UpdateLoopAbove(_)
UpdateLoopAbove(s) ==
    IF DoubleLess(DoubleOf(segment_size), s.move_accumulator)
    THEN UpdateLoopAbove(UpdateStep(s))
    ELSE s

\* mutant: an if in place of the while, at most one cell-step per call
UpdateLoopOnce(s) ==
    IF ~DoubleLess(s.move_accumulator, DoubleOf(segment_size))
    THEN UpdateStep(s)
    ELSE s

\* the while loop of Snake.update
RECURSIVE UpdateLoop(_)
UpdateLoop(s) ==
    IF ~DoubleLess(s.move_accumulator, DoubleOf(segment_size))
    THEN UpdateLoop(UpdateStep(s))
    ELSE s

\* Snake.update(delta_time), delta_time in ms
update(s, delta_time) ==
    IF delta_time <= 0
    THEN s
    ELSE UpdateLoop([s EXCEPT !.move_accumulator =
                        DoubleAdd(@, Travel[delta_time])])

is_opposite(dir1, dir2) == dir1[1] = -dir2[1] /\ dir1[2] = -dir2[2]

\* mutant: the acceleration step honours pending growth like an update step
move_one_segment_growing(s) ==
    LET inserted == <<NewHead(s)>> \o s.segments
    IN  IF s.grow_pending > 0
        THEN [s EXCEPT !.segments = inserted, !.grow_pending = @ - 1]
        ELSE [s EXCEPT !.segments = DropLast(inserted)]

move_one_segment(s) ==
    [s EXCEPT !.segments = DropLast(<<NewHead(s)>> \o s.segments)]

\* mutant: the reversal check is missing
change_direction_unchecked(s, new_direction) ==
    IF s.direction = new_direction THEN move_one_segment(s)
    ELSE [s EXCEPT !.direction = new_direction]

change_direction(s, new_direction) ==
    IF is_opposite(s.direction, new_direction) THEN s
    ELSE IF s.direction = new_direction THEN move_one_segment(s)
    ELSE [s EXCEPT !.direction = new_direction]

grow(s) == [s EXCEPT !.grow_pending = @ + 1]

\* mutant: a head box that touches the right or bottom edge collides
check_boundary_collision_touching(s) ==
    \/ get_head(s)[1] < 0
    \/ get_head(s)[1] + segment_size >= screen_width
    \/ get_head(s)[2] < 0
    \/ get_head(s)[2] + segment_size >= screen_height

check_boundary_collision(s) ==
    \/ get_head(s)[1] < 0
    \/ get_head(s)[1] + segment_size > screen_width
    \/ get_head(s)[2] < 0
    \/ get_head(s)[2] + segment_size > screen_height

\* pygame.Rect(ax, ay, size, size).colliderect(pygame.Rect(bx, by, size, size))
colliderect(a, b, size) ==
    /\ a[1] < b[1] + size /\ b[1] < a[1] + size
    /\ a[2] < b[2] + size /\ b[2] < a[2] + size

check_self_collision(s) ==
    IF Len(s.segments) <= 1 THEN FALSE
    ELSE \E i \in 2..Len(s.segments) :
            colliderect(get_head(s), s.segments[i], segment_size)

\* mutant: reset keeps the growth that is still pending
reset_keeps_growth(s) == [SnakeNew EXCEPT !.grow_pending = s.grow_pending]

reset(s) == SnakeNew

(***************************************************************************)
(* FruitGenerator (fruit.py)                                               *)
(***************************************************************************)
FruitGeneratorNew == [fruits |-> <<>>, timer |-> DoubleOf(interval)]

\* random.randrange(start, stop, step): the values it can return
randrange(start, stop, step) ==
    IF stop <= start THEN {}
    ELSE {start + k * step : k \in 0..((stop - start - 1) \div step)}

\* the cells one placement attempt can draw
DrawCells ==
    randrange(0, screen_width - grid_size + 1, grid_size)
        \X randrange(0, screen_height - grid_size + 1, grid_size)

\* Python round(n / d) for integers n and d > 0: nearest, ties to even
PyRound(n, d) ==
    LET q == n \div d
        r == n % d
    IN  IF 2 * r < d THEN q
        ELSE IF 2 * r > d THEN q + 1
        ELSE IF q % 2 = 0 THEN q ELSE q + 1

\* mutant: the segment coordinate is truncated (int) instead of rounded
GridCellTruncated(seg) ==
    <<(IF seg[1] >= 0 THEN seg[1] \div grid_size ELSE -((-seg[1]) \div grid_size))
          * grid_size,
      (IF seg[2] >= 0 THEN seg[2] \div grid_size ELSE -((-seg[2]) \div grid_size))
          * grid_size>>

GridCell(seg) == <<PyRound(seg[1], grid_size) * grid_size,
                   PyRound(seg[2], grid_size) * grid_size>>

overlaps_snake(x, y, snake_segments) ==
    \E i \in 1..Len(snake_segments) :
        <<x, y>> = GridCell(snake_segments[i])

\* the cells an attempt accepts: those no snake segment rounds to
FreeCells(snake_segments) ==
    {c \in DrawCells : ~overlaps_snake(c[1], c[2], snake_segments)}

\* n consecutive iterations of the for loop of _generate_fruit, over all random
\* draws: whether a fruit can be placed within them (and where), and whether
\* all of them can be rejected.  A rejected attempt changes nothing, so the
\* iterations are evaluated in two halves.
\* the outcomes of a run of attempts followed, when all of them were rejected,
\* by a second run
ThenAttempts(first, second) ==
    {r \in first : r.placed}
        \cup (IF \E r \in first : ~r.placed THEN second ELSE {})

\* a run of attempts made twice over, and then once more
Twice(half) == ThenAttempts(half, half)
TwiceAndOne(half, one) == ThenAttempts(half, ThenAttempts(half, one))

RECURSIVE GenerateAttempts(_, _, _)
GenerateAttempts(n, fruits, free) ==
    IF n = 0 THEN {[placed |-> FALSE, fruits |-> fruits]}
    ELSE IF n = 1
    THEN {[placed |-> TRUE, fruits |-> Append(fruits, c)] : c \in free}
             \cup (IF free = DrawCells THEN {}
                   ELSE {[placed |-> FALSE, fruits |-> fruits]})
    ELSE IF n % 2 = 0
    THEN Twice(GenerateAttempts(n \div 2, fruits, free))
    ELSE TwiceAndOne(GenerateAttempts(n \div 2, fruits, free),
                     GenerateAttempts(1, fruits, free))

\* mutant: after the last rejected attempt a fruit is placed all the same
generate_fruit_forced(fruits, snake_segments) ==
    {Append(fruits, c) : c \in DrawCells}

\* FruitGenerator._generate_fruit: every fruit list it can leave
generate_fruit(fruits, snake_segments) ==
    {r.fruits : r \in GenerateAttempts(max_attempts, fruits, FreeCells(snake_segments))}

\* the if of FruitGenerator.update, t being the timer after the subtraction
SpawnWhenDue(fg, t, snake_segments) ==
    IF NotPositive(t)
    THEN {[fruits |-> f, timer |-> DoubleOf(interval)] :
             f \in generate_fruit(fg.fruits, snake_segments)}
    ELSE {[fg EXCEPT !.timer = t.magnitude]}

\* mutant: the time past zero is carried over into the next countdown
fruit_update_carry(fg, delta_time, snake_segments) ==
    IF NotPositive(Decrement(fg.timer, delta_time))
    THEN {[fruits |-> f,
           timer |-> DoubleMinus(DoubleOf(interval),
                                 Decrement(fg.timer, delta_time).magnitude)
                         .magnitude] :
             f \in generate_fruit(fg.fruits, snake_segments)}
    ELSE {[fg EXCEPT !.timer = Decrement(fg.timer, delta_time).magnitude]}

\* FruitGenerator.update(delta_time, snake_segments), delta_time in ms: every
\* generator state it can return with.  The timer is a float of seconds, > 0
\* after every call.
fruit_update(fg, delta_time, snake_segments) ==
    SpawnWhenDue(fg, Decrement(fg.timer, delta_time), snake_segments)

\* FruitGenerator.remove_fruit for the i-th fruit object of the list
remove_fruit(fruits, i) ==
    IF i \in 1..Len(fruits)
    THEN SubSeq(fruits, 1, i - 1) \o SubSeq(fruits, i + 1, Len(fruits))
    ELSE fruits

fruit_clear(fg) == [fg EXCEPT !.fruits = <<>>]

\* mutant: reset clears the fruits but leaves the timer running
fruit_reset_fruits_only(fg) == [fg EXCEPT !.fruits = <<>>]

fruit_reset(fg) == [fg EXCEPT !.fruits = <<>>, !.timer = DoubleOf(interval)]

(***************************************************************************)
(* Exploration limits                                                      *)
(***************************************************************************)
InField(seg) ==
    /\ seg[1] >= 0 /\ seg[1] + segment_size <= screen_width
    /\ seg[2] >= 0 /\ seg[2] + segment_size <= screen_height

\* explored snakes keep their body inside the play field and their head within
\* one cell of it (the cells a head reaches by the step that leaves the field)
InBox(s) ==
    /\ get_head(s)[1] >= -segment_size /\ get_head(s)[1] <= screen_width
    /\ get_head(s)[2] >= -segment_size /\ get_head(s)[2] <= screen_height
    /\ \A i \in 2..Len(s.segments) : InField(s.segments[i])

InLen(s) == Len(s.segments) + s.grow_pending <= MaxLen

Explored(s) == InBox(s) /\ InLen(s)

\* the snakes followed in GrowthSpec
ExploredGrown(s) ==
    /\ InBox(s)
    /\ Len(s.segments) + s.grow_pending <= MaxGrown

\* the frame loop explores one more pending growth (two fruits eaten in a frame)
ExploredLive(s) ==
    /\ InBox(s)
    /\ Len(s.segments) <= MaxLen
    /\ Len(s.segments) + s.grow_pending <= MaxLen + 1

(***************************************************************************)
(* History records                                                         *)
(***************************************************************************)
\* update cell-steps are counted up to StepCap (more than any number of grow calls)
StepCap == MaxLen - length + 1

CountNew == [grow_calls |-> 0, update_steps |-> 0, grows_first |-> TRUE,
             elapsed |-> 0, rewinds |-> 0]

Last(o, d, t) == [op |-> o, dir |-> d, dt |-> t, eaten |-> 0]
NoDir == <<0, 0>>

\* Snake.__init__(screen_width, screen_height, segment_size=...): the arguments
\* are stored as they come
SnakeInit(width, height, size) ==
    [segment_size |-> size, screen_width |-> width, screen_height |-> height,
     direction |-> DOWN, move_accumulator |-> DoubleOf(0), grow_pending |-> 0,
     segments |-> [i \in 1..length |->
                      <<width \div 2, length * size - (i - 1) * size>>]]

\* FruitGenerator.__init__(screen_width, screen_height, grid_size)
FruitGeneratorInit(width, height, size) ==
    [screen_width |-> width, screen_height |-> height, grid_size |-> size,
     fruits |-> <<>>, timer |-> DoubleOf(interval)]

(***************************************************************************)
(* SnakeSpec: any sequence of calls on one Snake object                    *)
(***************************************************************************)
\* elapsed times passed to Snake.update (ms)
SnakeDeltas == {-1000, 0, 1500}

Init ==
    /\ snake = SnakeNew
    /\ fruit_generator = FruitGeneratorNew
    /\ start_page = [visible |-> TRUE, button_pressed |-> FALSE]
    /\ end_page = [visible |-> FALSE]
    /\ countdown_active = FALSE
    /\ countdown_timer = Signed(FALSE, DoubleOf(0))
    /\ countdown_number = 3
    /\ game_over = FALSE
    /\ last = Last("init", NoDir, 0)
    /\ passed_segments = <<>>
    /\ twin = SnakeNew
    /\ built = [snake |-> SnakeInit(screen_width, screen_height, segment_size),
                fruit_generator |->
                    FruitGeneratorInit(screen_width, screen_height, grid_size),
                in_update |-> FALSE]
    /\ count = CountNew

GameVarsUnchanged ==
    UNCHANGED <<start_page, end_page, countdown_active, countdown_timer,
                countdown_number, game_over, passed_segments, twin,
                   built>>

\* the cell-steps between snake s and the same snake after an update: every
\* step moves the head one cell along the direction
HeadSteps(s, moved) ==
    ((get_head(moved)[1] - get_head(s)[1]) * s.direction[1]
        + (get_head(moved)[2] - get_head(s)[2]) * s.direction[2]) \div segment_size

\* the Snake object becomes moved, the result of update(snake, dt)
SnakeUpdated(dt, moved) ==
    /\ Explored(moved)
    /\ snake' = moved
    /\ count' = [count EXCEPT !.update_steps =
                    Min(@ + HeadSteps(snake, moved), StepCap)]
    /\ last' = Last("update", NoDir, dt)
    /\ UNCHANGED fruit_generator
    /\ GameVarsUnchanged

SnakeUpdate(dt) == SnakeUpdated(dt, update(snake, dt))

SnakeChangeDirection(d) ==
    /\ Explored(change_direction(snake, d))
    /\ snake' = change_direction(snake, d)
    /\ last' = Last("change_direction", d, 0)
    /\ UNCHANGED <<count, fruit_generator>>
    /\ GameVarsUnchanged

SnakeGrow ==
    /\ Explored(grow(snake))
    /\ snake' = grow(snake)
    /\ last' = Last("grow", NoDir, 0)
    /\ count' = [count EXCEPT !.grow_calls = @ + 1,
                               !.grows_first = @ /\ count.update_steps = 0]
    /\ UNCHANGED fruit_generator
    /\ GameVarsUnchanged

SnakeReset ==
    /\ snake' = reset(snake)
    /\ last' = Last("reset", NoDir, 0)
    /\ count' = CountNew
    /\ UNCHANGED fruit_generator
    /\ GameVarsUnchanged

SnakeNext ==
    \/ \E dt \in SnakeDeltas : SnakeUpdate(dt)
    \/ \E d \in KEY_TO_DIRECTION : SnakeChangeDirection(d)
    \/ SnakeGrow
    \/ SnakeReset

SnakeSpec == Init /\ [][SnakeNext]_vars

(***************************************************************************)
(* GrowthSpec: any sequence of calls on one Snake object, as SnakeSpec,    *)
(* followed through two grow() calls (MaxGrown); count.update_steps is     *)
(* counted up to GrowthStepCap                                             *)
(***************************************************************************)
\* more cell-steps than any number of grow() calls followed
GrowthStepCap == MaxGrown - length + 1

GrowthUpdate(dt) ==
    /\ ExploredGrown(update(snake, dt))
    /\ snake' = update(snake, dt)
    /\ count' = [count EXCEPT !.update_steps =
                    Min(@ + HeadSteps(snake, update(snake, dt)), GrowthStepCap)]
    /\ last' = Last("update", NoDir, dt)
    /\ UNCHANGED fruit_generator
    /\ GameVarsUnchanged

GrowthChangeDirection(d) ==
    /\ ExploredGrown(change_direction(snake, d))
    /\ snake' = change_direction(snake, d)
    /\ last' = Last("change_direction", d, 0)
    /\ UNCHANGED <<count, fruit_generator>>
    /\ GameVarsUnchanged

GrowthGrow ==
    /\ ExploredGrown(grow(snake))
    /\ snake' = grow(snake)
    /\ last' = Last("grow", NoDir, 0)
    /\ count' = [count EXCEPT !.grow_calls = @ + 1,
                               !.grows_first = @ /\ count.update_steps = 0]
    /\ UNCHANGED fruit_generator
    /\ GameVarsUnchanged

GrowthReset ==
    /\ snake' = reset(snake)
    /\ last' = Last("reset", NoDir, 0)
    /\ count' = CountNew
    /\ UNCHANGED fruit_generator
    /\ GameVarsUnchanged

GrowthNext ==
    \/ \E dt \in SnakeDeltas : GrowthUpdate(dt)
    \/ \E d \in KEY_TO_DIRECTION : GrowthChangeDirection(d)
    \/ GrowthGrow
    \/ GrowthReset

GrowthSpec == Init /\ [][GrowthNext]_vars

(***************************************************************************)
(* CatchUpSpec: two Snake objects built alike receive the same calls; then *)
(* one receives update(a) and update(b), the other update(a + b)           *)
(***************************************************************************)
\* elapsed times a and b (ms)
CatchUpDeltas == {12, 988, 1000, 2000}

\* In this specification last.op is "both" (the same call on both objects),
\* "first" (update(a) on snake; last.dt = a), "second" (update(b) on snake and
\* update(a + b) on twin; last.dt = a + b) or "reset".
TwinVarsUnchanged ==
    UNCHANGED <<fruit_generator, start_page, end_page, countdown_active,
                countdown_timer, countdown_number, game_over, passed_segments,
                count, built>>

Alike == last.op \in {"init", "both", "reset"}

BothUpdate(dt) ==
    /\ Alike
    /\ Explored(update(snake, dt))
    /\ snake' = update(snake, dt)
    /\ twin' = update(twin, dt)
    /\ last' = Last("both", NoDir, 0)
    /\ TwinVarsUnchanged

BothChangeDirection(d) ==
    /\ Alike
    /\ Explored(change_direction(snake, d))
    /\ snake' = change_direction(snake, d)
    /\ twin' = change_direction(twin, d)
    /\ last' = Last("both", NoDir, 0)
    /\ TwinVarsUnchanged

BothGrow ==
    /\ Alike
    /\ Explored(grow(snake))
    /\ snake' = grow(snake)
    /\ twin' = grow(twin)
    /\ last' = Last("both", NoDir, 0)
    /\ TwinVarsUnchanged

BothReset ==
    /\ snake' = reset(snake)
    /\ twin' = reset(twin)
    /\ last' = Last("reset", NoDir, 0)
    /\ TwinVarsUnchanged

CatchUpFirst(a) ==
    /\ Alike
    /\ snake' = update(snake, a)
    /\ last' = Last("first", NoDir, a)
    /\ UNCHANGED twin
    /\ TwinVarsUnchanged

CatchUpSecond(b) ==
    /\ last.op = "first"
    /\ snake' = update(snake, b)
    /\ twin' = update(twin, last.dt + b)
    /\ last' = Last("second", NoDir, last.dt + b)
    /\ TwinVarsUnchanged

CatchUpNext ==
    \/ BothUpdate(MsPerSecond \div 2)
    \/ \E d \in KEY_TO_DIRECTION : BothChangeDirection(d)
    \/ BothGrow
    \/ BothReset
    \/ \E a \in CatchUpDeltas : CatchUpFirst(a)
    \/ \E b \in CatchUpDeltas : CatchUpSecond(b)

CatchUpSpec == Init /\ [][CatchUpNext]_vars

(***************************************************************************)
(* ConfigSpec: a Snake and a FruitGenerator are built with any arguments;  *)
(* update is called on that Snake and runs one iteration of its while loop *)
(* at a time                                                               *)
(***************************************************************************)
\* constructor arguments
ConfigWidths == {-screen_width, 0, screen_width}
ConfigHeights == {0, screen_height}
ConfigSizes == {-segment_size, 0, segment_size}

\* elapsed times passed to update (ms)
ConfigDeltas == {0, 1000, 1500}

\* In this specification last.op is "construct", "update" (the call has added
\* the travel and stands at the while), "loop" (one iteration) or "return".
ConfigVarsUnchanged ==
    UNCHANGED <<snake, fruit_generator, start_page, end_page, countdown_active,
                countdown_timer, countdown_number, game_over, passed_segments,
                twin, count>>

\* an iteration with a cell size > 0 moves accumulator into head position, so
\* this bound never stops a loop that can end
ConfigExplored(s) ==
    Abs(get_head(s)[2]) + s.move_accumulator[4] \div 16 <= MaxReach

ConstructSnake(width, height, size) ==
    /\ ~built.in_update
    /\ built' = [built EXCEPT !.snake = SnakeInit(width, height, size)]
    /\ last' = Last("construct", NoDir, 0)
    /\ ConfigVarsUnchanged

ConstructFruitGenerator(width, height, size) ==
    /\ ~built.in_update
    /\ built' = [built EXCEPT
                    !.fruit_generator = FruitGeneratorInit(width, height, size)]
    /\ last' = Last("construct", NoDir, 0)
    /\ ConfigVarsUnchanged

\* Snake.update(delta_time) up to the while: the early return, or the travel
\* is added to the accumulator
ConfigUpdate(dt) ==
    /\ ~built.in_update
    /\ IF dt <= 0
       THEN /\ UNCHANGED built
            /\ last' = Last("return", NoDir, dt)
       ELSE /\ ConfigExplored([built.snake EXCEPT
                               !.move_accumulator = DoubleAdd(@, Travel[dt])])
            /\ built' = [built EXCEPT
                           !.snake.move_accumulator = DoubleAdd(@, Travel[dt]),
                           !.in_update = TRUE]
            /\ last' = Last("update", NoDir, dt)
    /\ ConfigVarsUnchanged

\* move_accumulator >= segment_size; the accumulator is never negative
AccumulatorReaches(s) ==
    IF s.segment_size <= 0 THEN TRUE
    ELSE ~DoubleLess(s.move_accumulator, DoubleOf(s.segment_size))

\* the body of the while loop of Snake.update
ConfigStep(s) ==
    LET new_head == <<get_head(s)[1] + s.direction[1] * s.segment_size,
                      get_head(s)[2] + s.direction[2] * s.segment_size>>
        inserted == <<new_head>> \o s.segments
        left == IF s.segment_size >= 0
                THEN DoubleSub(s.move_accumulator, DoubleOf(s.segment_size))
                ELSE DoubleAdd(s.move_accumulator, DoubleOf(-s.segment_size))
    IN  IF s.grow_pending > 0
        THEN [s EXCEPT !.segments = inserted, !.grow_pending = @ - 1,
                       !.move_accumulator = left]
        ELSE [s EXCEPT !.segments = DropLast(inserted),
                       !.move_accumulator = left]

\* the while of Snake.update: its test, then one iteration or the return
ConfigUpdateLoop ==
    /\ built.in_update
    /\ IF AccumulatorReaches(built.snake)
       THEN /\ ConfigExplored(ConfigStep(built.snake))
            /\ built' = [built EXCEPT !.snake = ConfigStep(@)]
            /\ last' = Last("loop", NoDir, 0)
       ELSE /\ built' = [built EXCEPT !.in_update = FALSE]
            /\ last' = Last("return", NoDir, 0)
    /\ ConfigVarsUnchanged

ConfigNext ==
    \/ \E width \in ConfigWidths : \E height \in ConfigHeights :
          \E size \in ConfigSizes : ConstructSnake(width, height, size)
    \/ \E width \in ConfigWidths : \E height \in ConfigHeights :
          \E size \in ConfigSizes : ConstructFruitGenerator(width, height, size)
    \/ \E dt \in ConfigDeltas : ConfigUpdate(dt)
    \/ ConfigUpdateLoop

\* an update call that can run its next iteration does run it
ConfigSpec == Init /\ [][ConfigNext]_vars /\ WF_vars(ConfigUpdateLoop)

(***************************************************************************)
(* FruitSpec: any sequence of calls on one FruitGenerator object, with any *)
(* segment list passed to update                                           *)
(***************************************************************************)
\* elapsed times passed to FruitGenerator.update (ms)
FruitDeltas == {-2500, 0, 2500, 4900, 7000}

\* every cell of the play field, as a segment list
RECURSIVE SetToSeq(_)
SetToSeq(S) ==
    IF S = {} THEN <<>>
    ELSE LET c == CHOOSE x \in S : TRUE IN <<c>> \o SetToSeq(S \ {c})

\* segment lists passed to FruitGenerator.update: the initial snake; segments
\* between grid points (10/20 and 30/20 are ties) and outside the field; a
\* snake that covers every cell
SegmentLists ==
    {InitialSegments,
     <<<<10, 30>>, <<29, 11>>, <<-20, 0>>>>,
     SetToSeq(DrawCells)}

FruitVarsUnchanged ==
    UNCHANGED <<snake, start_page, end_page, countdown_active, countdown_timer,
                countdown_number, game_over, twin,
                   built>>

FruitUpdate(dt, segs) ==
    /\ dt < 0 => count.rewinds < MaxRewinds
    /\ \E fg \in fruit_update(fruit_generator, dt, segs) :
          /\ Len(fg.fruits) <= MaxFruits
          /\ fruit_generator' = fg
    /\ passed_segments' = segs
    /\ last' = Last("fruit_update", NoDir, dt)
    /\ count' = IF NotPositive(Decrement(fruit_generator.timer, dt))
                THEN [count EXCEPT !.elapsed = 0, !.rewinds = 0]
                ELSE [count EXCEPT !.elapsed = @ + dt,
                                   !.rewinds = IF dt < 0 THEN @ + 1 ELSE @]
    /\ FruitVarsUnchanged

FruitRemove(i) ==
    /\ fruit_generator' =
         [fruit_generator EXCEPT !.fruits = remove_fruit(@, i)]
    /\ last' = Last("remove_fruit", NoDir, 0)
    /\ UNCHANGED <<count, passed_segments>>
    /\ FruitVarsUnchanged

FruitClear ==
    /\ fruit_generator' = fruit_clear(fruit_generator)
    /\ last' = Last("clear", NoDir, 0)
    /\ UNCHANGED <<count, passed_segments>>
    /\ FruitVarsUnchanged

FruitReset ==
    /\ fruit_generator' = fruit_reset(fruit_generator)
    /\ last' = Last("fruit_reset", NoDir, 0)
    /\ count' = [count EXCEPT !.elapsed = 0, !.rewinds = 0]
    /\ UNCHANGED passed_segments
    /\ FruitVarsUnchanged

FruitNext ==
    \/ \E dt \in FruitDeltas : \E segs \in SegmentLists : FruitUpdate(dt, segs)
    \/ \E i \in 1..(MaxFruits + 1) : FruitRemove(i)
    \/ FruitClear
    \/ FruitReset

FruitSpec == Init /\ [][FruitNext]_vars

(***************************************************************************)
(* StartPageSpec: any sequence of calls on one StartPage object.  main()   *)
(* calls handle_event and hide only; show and reset are reached through    *)
(* the object alone.  button_hovered, which only picks the colour that     *)
(* draw uses, is not kept.                                                 *)
(***************************************************************************)
\* StartPage.show
start_page_show(sp) == [sp EXCEPT !.visible = TRUE]

\* StartPage.hide
start_page_hide(sp) == [sp EXCEPT !.visible = FALSE]

\* StartPage.reset
start_page_reset(sp) == [visible |-> TRUE, button_pressed |-> FALSE]

\* pygame event types and mouse buttons passed to StartPage.handle_event
EventTypes == {"MOUSEMOTION", "MOUSEBUTTONDOWN", "MOUSEBUTTONUP"}
Buttons == {1, 3}

\* StartPage.handle_event(event): the page after the call and the value
\* returned; on_button: event.pos is inside the button
handle_event(sp, type, button, on_button) ==
    IF ~sp.visible
    THEN [page |-> sp, clicked |-> FALSE]
    ELSE IF type = "MOUSEBUTTONDOWN" /\ button = 1 /\ on_button
    THEN [page |-> [sp EXCEPT !.button_pressed = TRUE], clicked |-> FALSE]
    ELSE IF type = "MOUSEBUTTONUP" /\ button = 1
    THEN IF on_button /\ sp.button_pressed
         THEN [page |-> [visible |-> FALSE, button_pressed |-> FALSE],
               clicked |-> TRUE]
         ELSE [page |-> [sp EXCEPT !.button_pressed = FALSE],
               clicked |-> FALSE]
    ELSE [page |-> sp, clicked |-> FALSE]

\* In this specification last.op is the event type of a handle_event call,
\* "show", "hide" or "start_page_reset"; last.dt is the button of the event.
StartPageVarsUnchanged ==
    UNCHANGED <<snake, fruit_generator, end_page, countdown_active,
                countdown_timer, countdown_number, game_over, passed_segments,
                twin, built, count>>

StartPageEvent(type, button, on_button) ==
    /\ start_page' = handle_event(start_page, type, button, on_button).page
    /\ last' = Last(type, NoDir, button)
    /\ StartPageVarsUnchanged

StartPageShow ==
    /\ start_page' = start_page_show(start_page)
    /\ last' = Last("show", NoDir, 0)
    /\ StartPageVarsUnchanged

StartPageHide ==
    /\ start_page' = start_page_hide(start_page)
    /\ last' = Last("hide", NoDir, 0)
    /\ StartPageVarsUnchanged

StartPageReset ==
    /\ start_page' = start_page_reset(start_page)
    /\ last' = Last("start_page_reset", NoDir, 0)
    /\ StartPageVarsUnchanged

StartPageNext ==
    \/ \E type \in EventTypes : \E button \in Buttons :
          \E on_button \in BOOLEAN : StartPageEvent(type, button, on_button)
    \/ StartPageShow
    \/ StartPageHide
    \/ StartPageReset

StartPageSpec == Init /\ [][StartPageNext]_vars

(***************************************************************************)
(* Spec: the frame loop of main() (game.py)                                *)
(***************************************************************************)
\* frame times returned by clock.tick (ms)
Deltas == {1000, 2000}

\* In this specification last.op is "mouse_down", "mouse_up", "restart", "key",
\* "tick" (a frame that ran update and the fruit block; last.eaten counts the
\* fruits it removed) or "frame" (any other frame); dir and dt are not kept.

\* StartPage.handle_event, MOUSEBUTTONDOWN with the left button on the button
StartMouseDown ==
    /\ start_page.visible
    /\ start_page' = [start_page EXCEPT !.button_pressed = TRUE]
    /\ last' = Last("mouse_down", NoDir, 0)
    /\ UNCHANGED <<snake, fruit_generator, end_page, countdown_active,
                   countdown_timer, countdown_number, game_over, count,
                   passed_segments, twin,
                   built>>

\* MOUSEBUTTONUP with the left button; on_button: the pointer is on Start
StartMouseUp(on_button) ==
    /\ start_page.visible
    /\ IF on_button /\ start_page.button_pressed
       THEN /\ start_page' = [visible |-> FALSE, button_pressed |-> FALSE]
            /\ countdown_active' = TRUE
            /\ countdown_timer' = Signed(FALSE, DoubleOf(CountdownStart))
            /\ countdown_number' = 3
       ELSE /\ start_page' = [start_page EXCEPT !.button_pressed = FALSE]
            /\ UNCHANGED <<countdown_active, countdown_timer, countdown_number>>
    /\ last' = Last("mouse_up", NoDir, 0)
    /\ UNCHANGED <<snake, fruit_generator, end_page, game_over, count,
                   passed_segments, twin,
                   built>>

\* EndPage.handle_event can return True: the end page is shown (end_page.py is
\* not part of the sources; the end page is taken to answer clicks only while
\* it is visible, as StartPage does)
restart_clicked == end_page.visible

\* an event for which end_page.handle_event returns True (game.py 92-101)
RestartClick ==
    /\ restart_clicked
    /\ game_over' = FALSE
    /\ end_page' = [visible |-> FALSE]
    /\ start_page' = start_page_hide(start_page)
    /\ snake' = reset(snake)
    /\ fruit_generator' = fruit_reset(fruit_generator)
    /\ countdown_active' = FALSE
    /\ countdown_timer' = Signed(FALSE, DoubleOf(0))
    /\ countdown_number' = 3
    /\ last' = Last("restart", NoDir, 0)
    /\ UNCHANGED <<count, passed_segments, twin,
                   built>>

\* mutant: the key handler does not test game_over
KeyDownAfterEnd(d) ==
    /\ IF ~start_page.visible /\ ~countdown_active
       THEN /\ ExploredLive(change_direction(snake, d))
            /\ snake' = change_direction(snake, d)
       ELSE UNCHANGED snake
    /\ last' = Last("key", NoDir, 0)
    /\ UNCHANGED <<fruit_generator, start_page, end_page, countdown_active,
                   countdown_timer, countdown_number, game_over, count,
                   passed_segments, twin,
                   built>>

\* mutant: the key handler does not test countdown_active
KeyDownInCountdown(d) ==
    /\ IF ~start_page.visible /\ ~game_over
       THEN /\ ExploredLive(change_direction(snake, d))
            /\ snake' = change_direction(snake, d)
       ELSE UNCHANGED snake
    /\ last' = Last("key", NoDir, 0)
    /\ UNCHANGED <<fruit_generator, start_page, end_page, countdown_active,
                   countdown_timer, countdown_number, game_over, count,
                   passed_segments, twin, built>>

\* KEYDOWN of an arrow key
KeyDown(d) ==
    /\ IF ~start_page.visible /\ ~countdown_active /\ ~game_over
       THEN /\ ExploredLive(change_direction(snake, d))
            /\ snake' = change_direction(snake, d)
       ELSE UNCHANGED snake
    /\ last' = Last("key", NoDir, 0)
    /\ UNCHANGED <<fruit_generator, start_page, end_page, countdown_active,
                   countdown_timer, countdown_number, game_over, count,
                   passed_segments, twin,
                   built>>

\* indices of the fruits whose rectangle overlaps the head rectangle
FruitsToRemove(s, fruits) ==
    {i \in 1..Len(fruits) : colliderect(get_head(s), fruits[i], grid_size)}

\* the removal loop of main(): remove_fruit for every fruit of to_remove
RECURSIVE RemoveFruits(_, _)
RemoveFruits(fruits, to_remove) ==
    IF to_remove = {} THEN fruits
    ELSE LET i == CHOOSE k \in to_remove : \A j \in to_remove : j <= k
         IN  RemoveFruits(remove_fruit(fruits, i), to_remove \ {i})

\* mutant: one grow() per frame, however many fruits were removed
GrowOnce(s, n) == IF n = 0 THEN s ELSE grow(s)

RECURSIVE GrowTimes(_, _)
GrowTimes(s, n) == IF n = 0 THEN s ELSE GrowTimes(grow(s), n - 1)

\* the countdown block of the frame (game.py 118-128)
\* t being countdown_timer after the subtraction; int(t) + 1 for t > 0
CountedDown(t) ==
    [active |-> ~NotPositive(t), timer |-> t,
     number |-> IF NotPositive(t) THEN countdown_number
                ELSE t.magnitude[4] \div 16 + 1]

CountdownAfter(dt) ==
    IF countdown_active
    THEN CountedDown(IF countdown_timer.negative
                     THEN Signed(TRUE, DoubleAdd(countdown_timer.magnitude,
                                                 SecondsOf[dt]))
                     ELSE DoubleMinus(countdown_timer.magnitude, SecondsOf[dt]))
    ELSE [active |-> FALSE, timer |-> countdown_timer, number |-> countdown_number]

\* the removal loop (game.py 154-156) for the fruits to_remove of the spawner
\* fg, moved being the snake after its update
FruitsEaten(moved, fg, to_remove) ==
    /\ Len(fg.fruits) <= MaxLive
    /\ ExploredLive(GrowTimes(moved, Cardinality(to_remove)))
    /\ snake' = GrowTimes(moved, Cardinality(to_remove))
    /\ fruit_generator' = [fg EXCEPT !.fruits = RemoveFruits(@, to_remove)]
    /\ last' = [Last("tick", NoDir, 0) EXCEPT !.eaten = Cardinality(to_remove)]

\* the spawner update and the fruit test (game.py 145-153) after the snake
\* update has returned moved
SnakeMoved(dt, moved) ==
    \E fg \in fruit_update(fruit_generator, dt, moved.segments) :
        FruitsEaten(moved, fg, FruitsToRemove(moved, fg.fruits))

\* one frame after its events: countdown, then the game block (game.py 117-156)
Tick(dt) ==
    LET cd == CountdownAfter(dt)
    IN  /\ countdown_active' = cd.active
        /\ countdown_timer' = cd.timer
        /\ countdown_number' = cd.number
        /\ UNCHANGED <<start_page, count, passed_segments, twin,
                   built>>
        /\ IF ~start_page.visible /\ ~cd.active /\ ~game_over
           THEN IF check_boundary_collision(snake) \/ check_self_collision(snake)
                THEN /\ game_over' = TRUE
                     /\ end_page' = [visible |-> TRUE]
                     /\ last' = Last("frame", NoDir, 0)
                     /\ UNCHANGED <<snake, fruit_generator>>
                ELSE /\ SnakeMoved(dt, update(snake, dt))
                     /\ UNCHANGED <<game_over, end_page>>
           ELSE /\ last' = Last("frame", NoDir, 0)
                /\ UNCHANGED <<snake, fruit_generator, game_over, end_page>>

Next ==
    \/ StartMouseDown
    \/ \E b \in BOOLEAN : StartMouseUp(b)
    \/ RestartClick
    \/ \E d \in KEY_TO_DIRECTION : KeyDown(d)
    \/ \E dt \in Deltas : Tick(dt)

Spec == Init /\ [][Next]_vars

(***************************************************************************)
(* Claims about the Snake object (checked under SnakeSpec)                 *)
(***************************************************************************)
Segs == snake.segments
Opposite(d) == <<-d[1], -d[2]>>

\* floor(d / segment_size) for a float d >= 0
Cells(d) == d[4] \div (16 * segment_size)

\* C4: on return from every Snake call, 0 <= move_accumulator < segment_size.
C4_AccumulatorInRange ==
    /\ ~DoubleLess(snake.move_accumulator, DoubleOf(0))
    /\ DoubleLess(snake.move_accumulator, DoubleOf(segment_size))

\* an update has left half a cell in the accumulator, after two cell-steps
C4_Witness ==
    /\ last.op = "update" /\ last.dt = 1500
    /\ snake.move_accumulator = DoubleOf(10)
    /\ count.update_steps >= 2

\* C5: change_direction with the exact opposite of the current direction
\* changes nothing, and no change_direction call turns the stored direction
\* into the opposite of the one stored before the call.
C5_NoReversalByCall ==
    [][last'.op = "change_direction" =>
          /\ (last'.dir = Opposite(snake.direction) => snake' = snake)
          /\ snake'.direction # Opposite(snake.direction)]_vars

\* a call with the opposite of the current direction has just returned, with
\* growth pending and a part-filled accumulator
C5_Witness ==
    /\ last.op = "change_direction"
    /\ last.dir = Opposite(snake.direction)
    /\ snake.grow_pending > 0
    /\ snake.move_accumulator # DoubleOf(0)

\* C6: change_direction with the current direction moves the head one
\* segment_size along it and drops the tail; accumulator, pending growth,
\* direction and length are unchanged.
C6_Acceleration ==
    [][(last'.op = "change_direction" /\ last'.dir = snake.direction) =>
          /\ snake'.segments[1] =
                <<Segs[1][1] + snake.direction[1] * segment_size,
                  Segs[1][2] + snake.direction[2] * segment_size>>
          /\ Len(snake'.segments) = Len(Segs)
          /\ \A i \in 2..Len(Segs) : snake'.segments[i] = Segs[i - 1]
          /\ snake'.move_accumulator = snake.move_accumulator
          /\ snake'.grow_pending = snake.grow_pending
          /\ snake'.direction = snake.direction]_vars

\* an acceleration has just returned with growth pending and a part-filled
\* accumulator, after a turn
C6_Witness ==
    /\ last.op = "change_direction"
    /\ last.dir = snake.direction
    /\ snake.direction = LEFT
    /\ Segs[1] = <<Segs[2][1] - segment_size, Segs[2][2]>>
    /\ snake.grow_pending > 0
    /\ snake.move_accumulator # DoubleOf(0)

\* C7: with no pending growth, update and change_direction leave the number
\* of segments unchanged (and leave no growth pending), so the length is
\* conserved over any sequence of them.
C7_LengthConserved ==
    [][(snake.grow_pending = 0 /\ last'.op \in {"update", "change_direction"}) =>
          /\ Len(snake'.segments) = Len(Segs)
          /\ snake'.grow_pending = 0]_vars

\* an update has stepped at least twice with no grow() call since the reset
C7_Witness ==
    /\ last.op = "update" /\ last.dt = 1500
    /\ count.grow_calls = 0
    /\ count.update_steps >= 2
    /\ Len(Segs) = length

\* s2 is s1 after n cell-steps of which g added a segment
GrownBy(s1, s2, n, g) ==
    /\ Len(s2.segments) = Len(s1.segments) + g
    /\ s2.grow_pending = s1.grow_pending - g
    /\ (n >= 1 /\ n <= s1.grow_pending) =>
          s2.segments[Len(s2.segments)] = s1.segments[Len(s1.segments)]
    /\ \A i \in 1..(Len(s1.segments) + g - n) :
          s2.segments[n + i] = s1.segments[i]

\* s2 is s1 after n cell-steps with min(pending growth, n) segments added
GrownOver(s1, s2, n) == GrownBy(s1, s2, n, Min(s1.grow_pending, n))

\* grow() leaves the segments alone and adds one to the pending growth; an
\* update of n cell-steps with g growth pending adds min(g, n) segments, takes
\* min(g, n) off the pending growth and keeps the tail while growth is pending
GrowthStepwise ==
    [][/\ last'.op = "grow" =>
            /\ snake'.segments = Segs
            /\ snake'.grow_pending = snake.grow_pending + 1
       /\ last'.op = "update" =>
            GrownOver(snake, snake',
                      IF last'.dt <= 0 THEN 0
                      ELSE Cells(DoubleAdd(snake.move_accumulator,
                                           Travel[last'.dt])))]_vars

\* C8 as stated: growth takes effect on update steps only (grow() leaves the
\* segments alone, a cell-step with growth pending takes one off the pending
\* growth, adds one segment and keeps the tail), and after k grow() calls and
\* m cell-steps of update, in whatever order they came, the length has grown
\* by exactly min(k, m).
C8_GrowthAnyOrder ==
    /\ GrowthStepwise
    /\ [](Len(Segs) = length + Min(count.grow_calls, count.update_steps))

\* C8, amended: growth takes effect on update steps only (as above); after k
\* grow() calls, in any order with the cell-steps, the length plus the pending
\* growth is the initial length plus k; and when no grow() call comes after a
\* cell-step, k grow() calls and m cell-steps have added exactly min(k, m)
\* segments.
C8_GrowthOnUpdateSteps ==
    /\ GrowthStepwise
    /\ [](/\ Len(Segs) + snake.grow_pending = length + count.grow_calls
          /\ count.grows_first =>
                Len(Segs) = length + Min(count.grow_calls, count.update_steps))

\* two grow() calls then one cell-step: four segments, the old tail still the
\* tail, one growth still pending
C8_Witness ==
    /\ last.op = "update"
    /\ count.grows_first
    /\ count.grow_calls = 2 /\ count.update_steps = 1
    /\ Len(Segs) = 4
    /\ Segs[4] = <<screen_width \div 2, segment_size>>
    /\ snake.grow_pending = 1

\* C9: the snake has at least one segment and consecutive segments differ by
\* exactly segment_size in exactly one axis and by zero in the other.
C9_Contiguity ==
    /\ Len(Segs) >= 1
    /\ \A i \in 1..(Len(Segs) - 1) :
          \/ /\ Abs(Segs[i][1] - Segs[i + 1][1]) = segment_size
             /\ Segs[i][2] = Segs[i + 1][2]
          \/ /\ Abs(Segs[i][2] - Segs[i + 1][2]) = segment_size
             /\ Segs[i][1] = Segs[i + 1][1]

\* a grown snake with a bend, after an update
C9_Witness ==
    /\ last.op = "update"
    /\ Len(Segs) = 4
    /\ Segs[1][1] # Segs[4][1]
    /\ Segs[1][2] # Segs[4][2]

\* s2 is s1 advanced by floor(d / segment_size) cell-steps, with the rest of d
\* in the accumulator
AdvancedSteps(s1, s2, d, n) ==
    /\ BigAdd(s2.move_accumulator, DoubleOf(n * segment_size)) = d
    /\ s2.direction = s1.direction
    /\ GrownOver(s1, s2, n)
    /\ \A j \in 1..Min(n, Len(s2.segments)) :
          s2.segments[j] =
             <<get_head(s1)[1] + (n + 1 - j) * s1.direction[1] * segment_size,
               get_head(s1)[2] + (n + 1 - j) * s1.direction[2] * segment_size>>

AdvancedBy(s1, s2, d) == AdvancedSteps(s1, s2, d, Cells(d))

\* update(s, ms) rounds nothing: the product is speed * ms / 1000 and the sum
\* is the exact sum
ExactUpdate(s, ms) ==
    /\ BigScale(Travel[ms], MsPerSecond) = DoubleOf(speed * ms)
    /\ BigAdd(s.move_accumulator, Travel[ms]) =
          DoubleAdd(s.move_accumulator, Travel[ms])

\* C11 as claimed: a call that brings the accumulator to d performs
\* floor(d / segment_size) cell-steps, and update(a) followed by update(b)
\* ends in the same segments, accumulator and pending growth as update(a + b),
\* for all positive a and b.
C11_CatchUp ==
    [][last'.op = "second" =>
          /\ AdvancedBy(twin, twin',
                        DoubleAdd(twin.move_accumulator, Travel[last'.dt]))
          /\ snake'.segments = twin'.segments
          /\ snake'.move_accumulator = twin'.move_accumulator
          /\ snake'.grow_pending = twin'.grow_pending]_vars

\* C11 (amended): a call that brings the accumulator to d performs
\* floor(d / segment_size) cell-steps (a new snake with head (w/2, 60) has head
\* (w/2, 80) and 3 segments after one second); update(a) followed by update(b)
\* ends in the same segments, accumulator and pending growth as update(a + b)
\* whenever none of the three calls rounds its product or its sum.
C11_CatchUpExact ==
    [][/\ last'.op = "first" =>
             /\ AdvancedBy(snake, snake',
                           DoubleAdd(snake.move_accumulator, Travel[last'.dt]))
             /\ (snake = SnakeNew /\ last'.dt = MsPerSecond) =>
                    /\ get_head(snake') =
                          <<screen_width \div 2, (length + 1) * segment_size>>
                    /\ Len(snake'.segments) = length
       /\ last'.op = "second" =>
             /\ AdvancedBy(snake, snake',
                           DoubleAdd(snake.move_accumulator,
                                     Travel[last'.dt - last.dt]))
             /\ AdvancedBy(twin, twin',
                           DoubleAdd(twin.move_accumulator, Travel[last'.dt]))
             /\ (/\ ExactUpdate(twin, last.dt)
                 /\ ExactUpdate(snake, last'.dt - last.dt)
                 /\ ExactUpdate(twin, last'.dt))
                    => /\ snake'.segments = twin'.segments
                       /\ snake'.move_accumulator = twin'.move_accumulator
                       /\ snake'.grow_pending = twin'.grow_pending]_vars

\* one second and two seconds, in two calls and in one, from half a cell in
\* the accumulator with growth pending: three cell-steps either way
C11_Witness ==
    /\ last.op = "second" /\ last.dt = 3000
    /\ snake = twin
    /\ Len(Segs) = 4
    /\ snake.direction = LEFT
    /\ snake.move_accumulator = DoubleOf(10)

\* the corners of the head's segment_size x segment_size box
HeadBox == {get_head(snake)[1], get_head(snake)[1] + segment_size}
               \X {get_head(snake)[2], get_head(snake)[2] + segment_size}

\* C19: check_boundary_collision() is true exactly when the head's box is not
\* fully inside [0, screen_width] x [0, screen_height]; a head in the leftmost
\* column moving left does not collide, and collides after one cell-step.
C19_BoundaryExact ==
    /\ [](check_boundary_collision(snake) <=>
             \E c \in HeadBox : \/ c[1] \notin 0..screen_width
                                \/ c[2] \notin 0..screen_height)
    /\ [][(/\ get_head(snake)[1] = 0
            /\ get_head(snake)[2] \in 0..(screen_height - segment_size)
            /\ snake.direction = LEFT
            /\ get_head(snake') =
                  <<get_head(snake)[1] - segment_size, get_head(snake)[2]>>) =>
              /\ ~check_boundary_collision(snake)
              /\ check_boundary_collision(snake')]_vars

\* the head has left the field through the left edge, one cell-step after the
\* leftmost column
C19_Witness ==
    /\ last.op \in {"update", "change_direction"}
    /\ snake.direction = LEFT
    /\ get_head(snake) = <<-segment_size, length * segment_size>>
    /\ Segs[2] = <<0, length * segment_size>>
    /\ check_boundary_collision(snake)

\* C21: a cell-step never goes against the cell-step before it: when an update
\* or an acceleration moves the head, the first cell it moves to (one cell from
\* the head along the direction) is not the cell of the segment behind the head.
C21_NoReversal ==
    [][(/\ last'.op \in {"update", "change_direction"}
        /\ get_head(snake') # get_head(snake)) =>
          <<get_head(snake)[1] + snake.direction[1] * segment_size,
            get_head(snake)[2] + snake.direction[2] * segment_size>>
              # Segs[2]]_vars

\* C15: reset() leaves exactly 3 segments at the initial layout (head at
\* (screen_width // 2, 3 * segment_size), the others above it one cell apart),
\* direction down, accumulator 0 and no pending growth, whatever calls came
\* before: the state of a freshly constructed snake.
C15_ResetRestores ==
    [][last'.op = "reset" =>
          /\ Len(snake'.segments) = 3
          /\ \A i \in 1..3 :
                snake'.segments[i] =
                    <<screen_width \div 2, (3 - (i - 1)) * segment_size>>
          /\ snake'.direction = <<0, 1>>
          /\ snake'.move_accumulator = DoubleOf(0)
          /\ snake'.grow_pending = 0
          /\ snake' = SnakeNew]_vars

\* reset() has just been called and the snake is the constructed one
C15_Witness ==
    /\ last.op = "reset"
    /\ count.grow_calls = 0 /\ count.update_steps = 0
    /\ get_head(snake) = <<screen_width \div 2, 3 * segment_size>>
    /\ Len(Segs) = 3

(***************************************************************************)
(* Claims about the FruitGenerator object (checked under FruitSpec)        *)
(***************************************************************************)
Fruits == fruit_generator.fruits

\* the multiple of grid_size nearest to v, the even multiple on a tie
NearestGrid(v) ==
    CHOOSE m \in {k * grid_size : k \in -2..(2 * HalfCols + Rows + 2)} :
        /\ \A k \in -2..(2 * HalfCols + Rows + 2) :
              Abs(v - m) <= Abs(v - k * grid_size)
        /\ \A k \in -2..(2 * HalfCols + Rows + 2) :
              (Abs(v - m) = Abs(v - k * grid_size) /\ k * grid_size # m)
                  => (m \div grid_size) % 2 = 0

\* C3: every fruit update appends lies on a grid cell of the play field that
\* is not the grid-rounded cell of any segment passed in.
C3_FruitAvoidsSnake ==
    [][(last'.op = "fruit_update" /\ fruit_generator'.fruits # Fruits) =>
          LET f == fruit_generator'.fruits[Len(fruit_generator'.fruits)]
          IN  /\ \A i \in 1..Len(passed_segments') :
                    f # <<NearestGrid(passed_segments'[i][1]),
                          NearestGrid(passed_segments'[i][2])>>
              /\ f[1] % grid_size = 0 /\ f[2] % grid_size = 0
              /\ 0 <= f[1] /\ f[1] <= screen_width - grid_size
              /\ 0 <= f[2] /\ f[2] <= screen_height - grid_size]_vars

\* a fruit was placed next to the cell an off-grid segment rounds to
C3_Witness ==
    /\ last.op = "fruit_update"
    /\ passed_segments = <<<<10, 30>>, <<29, 11>>, <<-20, 0>>>>
    /\ Len(Fruits) >= 1
    /\ Fruits[Len(Fruits)] = <<0, 20>>

\* C10: the timer counts down from interval and is above zero after every
\* call; an update that leaves it above zero adds no fruit, and that is every
\* update while the time elapsed since the timer was set is below interval;
\* an update that brings it to zero or below (at the latest the one that takes
\* the elapsed time past interval) makes one spawn attempt (at most one fruit
\* more, the others kept) and sets the timer to interval whether or not a
\* fruit was placed.
C10_Countdown ==
    /\ [](DoubleLess(DoubleOf(0), fruit_generator.timer))
    /\ [][last'.op = "fruit_update" =>
            /\ count.elapsed + last'.dt < interval * MsPerSecond =>
                  fruit_generator'.fruits = Fruits
            /\ count.elapsed + last'.dt > interval * MsPerSecond =>
                  fruit_generator'.timer = DoubleOf(interval)
            /\ IF NotPositive(Decrement(fruit_generator.timer, last'.dt))
               THEN /\ fruit_generator'.timer = DoubleOf(interval)
                    /\ \/ fruit_generator'.fruits = Fruits
                       \/ /\ Len(fruit_generator'.fruits) = Len(Fruits) + 1
                          /\ SubSeq(fruit_generator'.fruits, 1, Len(Fruits))
                                = Fruits
               ELSE /\ fruit_generator'.fruits = Fruits
                    /\ Signed(FALSE, fruit_generator'.timer)
                          = Decrement(fruit_generator.timer, last'.dt)]_vars

\* an update that went far past zero placed nothing (every cell was a snake
\* cell) and the timer is back at interval
C10_Witness ==
    /\ last.op = "fruit_update" /\ last.dt = 7000
    /\ Len(passed_segments) = Cardinality(DrawCells)
    /\ Fruits = <<>>
    /\ fruit_generator.timer = DoubleOf(interval)

\* an update has just run a spawn cycle over a snake that covers every cell
Starved ==
    /\ last.op = "fruit_update" /\ last.dt > 0
    /\ fruit_generator.timer = DoubleOf(interval)
    /\ FreeCells(passed_segments) = {}

\* C16: a spawn cycle whose attempts are all rejected returns normally with
\* the fruit collection unchanged and the countdown back at interval (always so
\* when the snake covers every cell), and from the state it leaves the next
\* cycle over a snake with free cells can place a fruit on one of them.
C16_Starvation ==
    /\ [][(/\ last'.op = "fruit_update"
            /\ NotPositive(Decrement(fruit_generator.timer, last'.dt))
            /\ \/ Len(fruit_generator'.fruits) = Len(Fruits)
               \/ FreeCells(passed_segments') = {}) =>
              /\ fruit_generator'.fruits = Fruits
              /\ fruit_generator'.timer = DoubleOf(interval)]_vars
    /\ [](~DoubleLess(DoubleOf(interval), fruit_generator.timer) =>
             fruit_update(fruit_generator, interval * MsPerSecond,
                          SetToSeq(DrawCells))
                 = {[fruit_generator EXCEPT !.timer = DoubleOf(interval)]})
    /\ [](Starved =>
             /\ FreeCells(InitialSegments) # {}
             /\ \A c \in FreeCells(InitialSegments) :
                   [fruits |-> Append(Fruits, c), timer |-> DoubleOf(interval)]
                       \in fruit_update(fruit_generator,
                                        interval * MsPerSecond,
                                        InitialSegments))

\* a starved cycle has left the one fruit that was there
C16_Witness ==
    /\ Starved
    /\ Len(Fruits) = 1

\* C18: an update with an elapsed time <= 0 changes nothing: Snake.update leaves
\* segments, direction, accumulator and pending growth as they are, and
\* FruitGenerator.update leaves the fruits and the countdown as they are.
C18_NoOp ==
    /\ [][(last'.op = "update" /\ last'.dt <= 0) => snake' = snake]_vars
    /\ [][(last'.op = "fruit_update" /\ last'.dt <= 0) =>
             fruit_generator' = fruit_generator]_vars

(***************************************************************************)
(* Claims about construction (checked under ConfigSpec)                    *)
(***************************************************************************)
\* C17: a snake or a fruit generator with a cell size <= 0 or a play field
\* without extent is never built (construction rejects such arguments), and
\* every call of Snake.update leaves its while loop.
C17_ConfigChecked ==
    /\ [](/\ built.snake.segment_size > 0
          /\ built.snake.screen_width > 0
          /\ built.snake.screen_height > 0)
    /\ [](/\ built.fruit_generator.grid_size > 0
          /\ built.fruit_generator.screen_width > 0
          /\ built.fruit_generator.screen_height > 0)
    /\ (built.in_update ~> ~built.in_update)

(***************************************************************************)
(* Claims about the frame loop (checked under Spec)                        *)
(***************************************************************************)
\* the head is outside the play field or overlaps a non-head segment
Colliding(s) == check_boundary_collision(s) \/ check_self_collision(s)

\* the start page is gone and the countdown is over
RoundOn == ~start_page.visible /\ ~countdown_active

\* the squares of side grid_size at a and b overlap
Overlap(a, b) == Abs(a[1] - b[1]) < grid_size /\ Abs(a[2] - b[2]) < grid_size

\* the fruits of the list f whose square does not overlap the square at h
RECURSIVE Survivors(_, _)
Survivors(f, h) ==
    IF f = <<>> THEN <<>>
    ELSE (IF Overlap(h, Head(f)) THEN <<>> ELSE <<Head(f)>>) \o Survivors(Tail(f), h)

\* f2 is kept, or kept and one fruit spawned in this frame that is off the head h
KeptOrSpawned(f2, kept, h) ==
    \/ f2 = kept
    \/ /\ Len(f2) = Len(kept) + 1
       /\ SubSeq(f2, 1, Len(kept)) = kept
       /\ ~Overlap(h, f2[Len(f2)])

\* the frame took snake s1 and fruits f1 to s2 and f2, kept being the fruits of
\* f1 off the head of s2
Consumed(s1, f1, s2, f2, kept, eaten) ==
    /\ KeptOrSpawned(f2, kept, get_head(s2))
    /\ eaten = Len(f1) - Len(kept)
    /\ Len(s2.segments) + s2.grow_pending =
          Len(s1.segments) + s1.grow_pending + Len(f1) - Len(kept)

\* C12: a frame that runs the game block without a collision removes every
\* fruit whose square overlaps the head square after the advance, fruits on
\* the same cell included, keeps the others in order, and adds exactly one
\* pending growth per removed fruit.
C12_FruitConsumption ==
    [][last'.op = "tick" =>
          Consumed(snake, Fruits, snake', fruit_generator'.fruits,
                   Survivors(Fruits, get_head(snake')), last'.eaten)]_vars

\* a frame has eaten two fruits lying on the same cell
C12_Witness ==
    /\ last.op = "tick" /\ last.eaten = 2
    /\ snake.grow_pending >= 2
    /\ Fruits = <<>>

\* C13: while game_over is set, no frame and no key event changes the snake
\* (segments, direction, accumulator, pending growth) or the spawner (fruits,
\* timer), and game_over stays set; only the restart clears it.
C13_GameOverTerminal ==
    [][(game_over /\ last'.op # "restart") =>
          /\ snake' = snake
          /\ fruit_generator' = fruit_generator
          /\ game_over']_vars

\* a key event was handled after the round ended with a fruit on the field
C13_Witness ==
    /\ game_over
    /\ last.op = "key"
    /\ Len(Fruits) >= 1
    /\ DoubleLess(fruit_generator.timer, DoubleOf(interval))

\* C22: after every frame that ran the simulation, no fruit of the generator
\* is on the cell of a snake segment, the head included.
C22_NoFruitUnderSnake ==
    last.op = "tick" =>
        \A i \in 1..Len(Fruits) : \A j \in 1..Len(Segs) : Fruits[i] # Segs[j]

\* C20: while the start page is shown or the countdown is active, the snake is
\* in its initial configuration, there is no fruit and the fruit timer is at
\* interval; a direction key pressed then changes neither the snake nor the
\* fruit generator.  (The frame in which the countdown reaches zero is the
\* first frame of the round.)
C20_IdleUntouched ==
    /\ [](~RoundOn =>
             /\ Segs = <<<<screen_width \div 2, 3 * segment_size>>,
                         <<screen_width \div 2, 2 * segment_size>>,
                         <<screen_width \div 2, segment_size>>>>
             /\ snake.direction = DOWN
             /\ snake.move_accumulator = DoubleOf(0)
             /\ snake.grow_pending = 0
             /\ Fruits = <<>>
             /\ fruit_generator.timer = DoubleOf(interval)
             /\ ~game_over)
    /\ [][(~RoundOn /\ last'.op \in {"key", "frame"}) =>
             /\ snake' = snake
             /\ fruit_generator' = fruit_generator]_vars

\* a direction key has been pressed two seconds into the countdown
C20_Witness ==
    /\ countdown_active
    /\ countdown_timer = Signed(FALSE, DoubleOf(CountdownStart - 2))
    /\ last.op = "key"
    /\ snake.direction = DOWN

\* C14: the restart clears game_over, puts the snake in its initial
\* configuration, empties the fruit list and sets the fruit timer to interval;
\* no page and no countdown is left, and the frame that follows runs the
\* simulation: the snake advances and the fruit timer counts down.
C14_Restart ==
    /\ [][last'.op = "restart" =>
             /\ game_over /\ ~game_over'
             /\ snake'.segments =
                   <<<<screen_width \div 2, 3 * segment_size>>,
                     <<screen_width \div 2, 2 * segment_size>>,
                     <<screen_width \div 2, segment_size>>>>
             /\ snake'.direction = DOWN
             /\ snake'.move_accumulator = DoubleOf(0)
             /\ snake'.grow_pending = 0
             /\ fruit_generator'.fruits = <<>>
             /\ fruit_generator'.timer = DoubleOf(interval)
             /\ ~start_page'.visible /\ ~end_page'.visible /\ ~countdown_active']_vars
    /\ [][(last.op = "restart" /\ last'.op \in {"tick", "frame"}) =>
             /\ last'.op = "tick"
             /\ ~game_over'
             /\ get_head(snake')[1] = get_head(snake)[1]
             /\ get_head(snake')[2] > get_head(snake)[2]
             /\ DoubleLess(fruit_generator'.timer, DoubleOf(interval))]_vars

\* a restart click has just been handled and the round is ready to run
C14_Witness ==
    /\ last.op = "restart"
    /\ ~game_over /\ ~end_page.visible
    /\ Segs = <<<<screen_width \div 2, 3 * segment_size>>,
                <<screen_width \div 2, 2 * segment_size>>,
                <<screen_width \div 2, segment_size>>>>
    /\ fruit_generator = [fruits |-> <<>>, timer |-> DoubleOf(interval)]

\* C1: once an advance has left the snake colliding, the next frame sets
\* game_over and nothing but the restart changes the segments again.
C1_CollisionStopsSnake ==
    [][(RoundOn /\ Colliding(snake) /\ last'.op # "restart") =>
          /\ snake'.segments = Segs
          /\ last'.op = "frame" => game_over']_vars

\* C2: a tick whose advance leaves the snake colliding removes no fruit and
\* calls grow() for none.
C2_CollisionBeforeFruit ==
    [][(last'.op = "tick" /\ Colliding(snake')) => last'.eaten = 0]_vars

====
